---- MODULE Spec2Model ----
(***************************************************************************)
(* Inventory ledger and fulfilment transactions of the Nexus WMS.          *)
(*                                                                         *)
(* The ledger (inventory), the movement log (transactions), the pick lines *)
(* (shipment_lines), the putaway tasks and the problem tickets are tables  *)
(* of one PostgreSQL database.  Concurrent sessions call                   *)
(*   - addStock: a client-side read, then a write, then a log insert, each *)
(*     its own auto-committed statement;                                   *)
(*   - move_stock, adjust_stock, complete_pick and                         *)
(*     complete_pick_with_shortage: PL/pgSQL functions, each one           *)
(*     transaction whose row locks (SELECT ... FOR UPDATE) are held until  *)
(*     it commits or raises, and whose writes become visible at commit;    *)
(*   - the pull / release / complete conditional updates on task rows,     *)
(*     each a single auto-committed UPDATE.                                *)
(* A session's position inside a call is call[w].pc.  A step is taken at   *)
(* every point where a call reads committed data, waits for a row lock or  *)
(* makes its writes visible.                                               *)
(***************************************************************************)
EXTENDS Integers, Sequences, FiniteSets, TLC

\* The sessions; session w acts as the user w of the users table.
Workers == {"u1", "u2"}
\* A user id that is in no row of users (REFERENCES users(id) rejects it).
NoSuchUser == "u0"
Users == Workers
Warehouse == "wh1"
Product == "p1"
Locations == {"A", "B"}
Shipment == "s1"
\* The warehouses, products and shipments of wave planning; the shipments are
\* orders of warehouse wh1.
Warehouses == {"wh1", "wh2"}
Products == {"p1", "p2"}
Shipments == {"s1", "s2"}
NULL == "null"

\* Bounds of the model.
MaxCalls == 2
MaxQty == 2
MaxWaves == 2
Spread == 24

\* The stock a location starts with.
InitQty == MaxQty

Lines == {1, 2}
Tasks == {1}
\* A task id that is in no row of putaway_tasks.
NoSuchTask == 9

\* Inputs of the calls.
ReceiveQtys == {0, 1}
MoveQtys == 0 .. MaxQty
Deltas == (0 - MaxQty) .. MaxQty
ActualQtys == (0 - 1) .. (MaxQty + 1)
Reason == "cycle count"
Reasons == {Reason, ""}

VARIABLES
    inventory,   \* the inventory table: a sequence of rows, a row's id is its index
    log,         \* the transactions table, in commit order
    lines,       \* the shipment_lines table: line id -> row
    tasks,       \* the putaway_tasks table: task id -> row
    tickets,     \* the problem_tickets table, in commit order
    call,        \* call[w]: the call session w is in, or the one it finished last
    held,        \* held[w]: the tasks whose Pull returned success to w and that w has not given back
    eff,         \* eff[w]: what the current (or last) call of w has made visible so far
    ncalls,      \* number of calls started
    applied,     \* the ledger writes, in the order the database applied them
    waves,       \* the waves table: a sequence of rows, a row's id is its index
    shipments,   \* the shipments table: shipment id -> row
    wcall,       \* the createWave call in progress, or the one finished last
    commitment,  \* what the last preCheckInventoryCommitment returned
    queue,       \* what the last get_optimized_pick_queue returned
    validation   \* what the last schema validation returned

vars == <<inventory, log, lines, tasks, tickets, call, held, eff, ncalls, applied,
          waves, shipments, wcall, commitment, queue, validation>>
waveVars == <<waves, shipments, wcall, commitment, queue, validation>>
tables == <<inventory, log, lines, tasks, tickets>>

-----------------------------------------------------------------------------
\* Messages of the errors the calls end with.
ErrAddStock == "Failed to add stock"
ErrQtyPositive == "Quantity must be positive"
ErrSourceNotFound == "Move failed: Source inventory not found"
ErrInsufficientSource == "Move failed: Insufficient stock at source location"
ErrMoveFK == "Move failed: insert or update on table transactions violates foreign key constraint"
ErrMoveDeadlock == "Move failed: deadlock detected"
ErrAdjustNegative == "Adjustment failed: Adjustment would result in negative stock"
ErrAdjustNoStock == "Adjustment failed: Cannot reduce stock that does not exist"
ErrAdjustFK == "Adjustment failed: insert or update on table transactions violates foreign key constraint"
ErrPickNotAssigned == "Pick failed: Pick not found or not assigned to you"
ErrPickNoInventory == "Pick failed: Inventory record not found"
ErrPickInsufficient == "Pick failed: Insufficient stock at location"
ErrActualNegative == "Pick failed: Actual quantity cannot be negative"
ErrActualExceeds == "Pick failed: Actual quantity cannot exceed expected quantity"
ErrPullPutaway == "Failed to pull putaway task. Please try again."
ErrCompletePutaway == "Failed to complete putaway task. Please try again."
ErrReleasePutaway == "NotAssignedToYou"
ErrPullPick == "AlreadyAssigned"
ErrReleasePick == "NotAssignedToYou"

-----------------------------------------------------------------------------
\* Rows.

InventoryRow(loc, qty) ==
    [warehouse_id |-> Warehouse, product_id |-> Product, location_id |-> loc,
     lot_number |-> NULL, quantity |-> qty, updated_at |-> 0]

\* An update whose WHERE clause does not single out the row: it stamps every
\* row of the table.
UpdateQuantityEveryRow(inv, i, qty) ==
    [j \in DOMAIN inv |->
        IF j = i THEN [inv[j] EXCEPT !.quantity = qty, !.updated_at = @ + 1]
        ELSE [inv[j] EXCEPT !.updated_at = @ + 1]]

\* UPDATE inventory SET quantity = .., updated_at = NOW(): the time of a row's
\* last update is kept as the number of updates the row has had.
UpdateQuantity(inv, i, qty) ==
    [inv EXCEPT ![i].quantity = qty, ![i].updated_at = @ + 1]

\* UNIQUE(warehouse_id, product_id, location_id, lot_number): two rows conflict
\* when all four columns are equal, and in SQL a NULL equals nothing.
UniqueViolation(row) ==
    \E i \in DOMAIN inventory :
        /\ inventory[i].warehouse_id = row.warehouse_id
        /\ inventory[i].product_id = row.product_id
        /\ inventory[i].location_id = row.location_id
        /\ row.lot_number # NULL
        /\ inventory[i].lot_number = row.lot_number

\* WHERE warehouse_id = .. AND location_id = .. AND product_id = ..
Matching(wh, prod, loc) ==
    {i \in DOMAIN inventory :
        /\ inventory[i].warehouse_id = wh
        /\ inventory[i].product_id = prod
        /\ inventory[i].location_id = loc}

\* A notes text with the number it carries; NoNote is SQL NULL.
Note(text, n) == [text |-> text, n |-> n]
NoNote == Note("", 0)

TxEntry(type, user, from, to, qty, ref, notes) ==
    [warehouse_id |-> Warehouse, transaction_type |-> type, user_id |-> user,
     product_id |-> Product, location_id_from |-> from, location_id_to |-> to,
     quantity |-> qty, reference_id |-> ref, notes |-> notes, status |-> "completed"]

\* transactions.user_id REFERENCES users(id)
UserExists(user) == user \in Users

Idle ==
    [op |-> "none", pc |-> "done", user |-> NULL, loc |-> NULL, to |-> NULL, qty |-> 0,
     line |-> 0, r1 |-> 0, r2 |-> 0, rq |-> 0, reason |-> "", err |-> ""]

\* A finished call keeps its name and its error; "" is success.
Done(c) == [Idle EXCEPT !.op = c.op, !.line = c.line]

NoEffect == [ledger |-> 0, log |-> 0, tasks |-> 0, tickets |-> 0]

\* The ledger rows a step writes: the rows it creates and the rows it changes.
Written ==
    {i \in DOMAIN inventory' : i \notin DOMAIN inventory \/ inventory'[i] # inventory[i]}

\* What one step of session w makes visible, added to what its call has made
\* visible before (fresh: the step starts a new call).
Account(w, fresh) ==
    /\ eff' = [eff EXCEPT ![w] =
        [ledger  |-> (IF fresh THEN 0 ELSE @.ledger) + (IF inventory' # inventory THEN 1 ELSE 0),
         log     |-> (IF fresh THEN 0 ELSE @.log) + (Len(log') - Len(log)),
         tasks   |-> (IF fresh THEN 0 ELSE @.tasks)
                        + (IF lines' # lines \/ tasks' # tasks THEN 1 ELSE 0),
         tickets |-> (IF fresh THEN 0 ELSE @.tickets) + (Len(tickets') - Len(tickets))]]
    /\ applied' = IF Written # {}
                  THEN Append(applied, [session |-> w, user |-> call[w].user, rows |-> Written])
                  ELSE applied

\* A session makes one call at a time; the calls that append to the log are
\* counted, to keep the log finite.
CanStart(w) == call[w].pc = "done" /\ ncalls < MaxCalls
CanStartTaskOp(w) == call[w].pc = "done"

-----------------------------------------------------------------------------
\* Row locks.  A lock is held by the transaction that took it until that
\* transaction ends; which locks a session holds follows from its position.

RowLockedBy(i) ==
    {w \in Workers :
        \/ call[w].op = "move" /\ call[w].pc \in {"dest", "commit"} /\ call[w].r1 = i
        \/ call[w].op = "move" /\ call[w].pc = "commit" /\ call[w].r2 = i
        \/ call[w].op = "adjust" /\ call[w].pc = "commit" /\ call[w].r1 = i}

LineLockedBy(l) ==
    {w \in Workers : call[w].op \in {"pick", "shortpick"} /\ call[w].pc = "inv" /\ call[w].line = l}

RowFree(w, i) == RowLockedBy(i) \subseteq {w}
LineFree(w, l) == LineLockedBy(l) \subseteq {w}

-----------------------------------------------------------------------------
\* Wave planning rows.
ShipmentRow ==
    [warehouse_id |-> Warehouse, wave_id |-> 0, status |-> "pending",
     priority |-> 1, created_at |-> 1]

WaveRow(wh, n) ==
    [warehouse_id |-> wh, status |-> "pending", total_shipments |-> n,
     released_at |-> FALSE]

NoWaveCall == [op |-> "none", pc |-> "done", ids |-> {}, wave |-> 0, n0 |-> 0, err |-> ""]

NoCommitment == [op |-> "none", ids |-> {}, can_fulfill |-> TRUE, shortages |-> {}]

NoQueue == [op |-> "none", wh |-> NULL, wave |-> 0, rows |-> <<>>]

NoValidation == [op |-> "none", twice |-> 0, success |-> FALSE]

\* No wave planning goes on while the stock mutators and the task operations
\* are examined.
NoWavePlanning ==
    /\ waves = <<>>
    /\ shipments = [s \in Shipments |-> ShipmentRow]
    /\ wcall = NoWaveCall
    /\ commitment = NoCommitment
    /\ queue = NoQueue
    /\ validation = NoValidation

-----------------------------------------------------------------------------
\* A pick line of the one shipment, at location A.
PickLine(qty, status, user) ==
    [shipment_id |-> Shipment, product_id |-> Product, location_id |-> "A",
     quantity |-> qty, status |-> status, picked_by |-> user,
     picked_at |-> FALSE, notes |-> NoNote]

PutawayTask == [status |-> "pending", assigned_to |-> NULL, completed_at |-> FALSE]

\* The quantity a line asks for.
LineQty(l) == IF l = 1 THEN MaxQty ELSE 1

\* The worker that has pulled line l when the ledger calls start.
Puller(l) == IF l = 1 THEN "u1" ELSE "u2"

\* The stock mutators start with stock at A, with or without a row at B, and
\* with every pick line pulled by a worker.
InitialLedgers ==
    {<<InventoryRow("A", InitQty)>>,
     <<InventoryRow("A", InitQty), InventoryRow("B", InitQty)>>}

Init ==
    /\ inventory \in InitialLedgers
    /\ log = <<>>
    /\ lines = [l \in Lines |-> PickLine(LineQty(l), "in_progress", Puller(l))]
    /\ tasks = [t \in Tasks |-> PutawayTask]
    /\ tickets = <<>>
    /\ call = [w \in Workers |-> Idle]
    /\ held = [w \in Workers |-> {<<"pick", l>> : l \in {k \in Lines : Puller(k) = w}}]
    /\ eff = [w \in Workers |-> NoEffect]
    /\ ncalls = 0
    /\ applied = <<>>
    /\ NoWavePlanning

\* The task state machine starts with every task and every line pending.
InitTasks ==
    /\ inventory = <<InventoryRow("A", InitQty)>>
    /\ log = <<>>
    /\ lines = [l \in Lines |-> PickLine(LineQty(l), "pending", NULL)]
    /\ tasks = [t \in Tasks |-> PutawayTask]
    /\ tickets = <<>>
    /\ call = [w \in Workers |-> Idle]
    /\ held = [w \in Workers |-> {}]
    /\ eff = [w \in Workers |-> NoEffect]
    /\ ncalls = 0
    /\ applied = <<>>
    /\ NoWavePlanning

-----------------------------------------------------------------------------
\* addStock

\* .single(): the row when exactly one row matches, else no data.
Single(S) == IF Cardinality(S) = 1 THEN CHOOSE i \in S : TRUE ELSE 0

\* quantity validation and step 1, the read of the existing row
AddStockSelect(w, loc, qty, user) ==
    /\ CanStart(w)
    /\ ncalls' = ncalls + 1
    /\ LET existing == Single(Matching(Warehouse, Product, loc)) IN
       call' = [call EXCEPT ![w] =
            IF qty <= 0
            THEN [Idle EXCEPT !.op = "receive", !.err = ErrAddStock]
            ELSE [Idle EXCEPT !.op = "receive", !.pc = "write", !.user = user, !.loc = loc,
                              !.qty = qty, !.r1 = existing,
                              !.rq = IF existing = 0 THEN 0 ELSE inventory[existing].quantity]]
    /\ UNCHANGED <<tables, held>>
    /\ Account(w, TRUE)
    /\ UNCHANGED waveVars

\* the update of the existing row, or the insert of a new one
AddStockWrite(w) ==
    /\ call[w].op = "receive" /\ call[w].pc = "write"
    /\ IF call[w].r1 # 0
       THEN /\ RowFree(w, call[w].r1)
            /\ inventory' = UpdateQuantity(inventory, call[w].r1, call[w].rq + call[w].qty)
            /\ call' = [call EXCEPT ![w].pc = "log"]
       ELSE IF UniqueViolation(InventoryRow(call[w].loc, call[w].qty))
            THEN /\ inventory' = inventory
                 /\ call' = [call EXCEPT ![w] = [Idle EXCEPT !.op = "receive", !.err = ErrAddStock]]
            ELSE /\ inventory' = Append(inventory, InventoryRow(call[w].loc, call[w].qty))
                 /\ call' = [call EXCEPT ![w].pc = "log", ![w].r1 = Len(inventory) + 1]
    /\ UNCHANGED <<log, lines, tasks, tickets, held, ncalls>>
    /\ Account(w, FALSE)
    /\ UNCHANGED waveVars

\* An insert that replaces the log by the new entry.
logTransactionOverwrite(entry) ==
    IF UserExists(entry.user_id) THEN <<entry>> ELSE log

\* logTransaction: the insert, whose error is returned, not thrown
logTransaction(entry) ==
    IF UserExists(entry.user_id) THEN Append(log, entry) ELSE log

\* step 2: the log insert, whose failure does not fail the call
AddStockLog(w) ==
    /\ call[w].op = "receive" /\ call[w].pc = "log"
    /\ log' = logTransaction(TxEntry("receive", call[w].user, NULL, call[w].loc, call[w].qty,
                                     NULL, NoNote))
    /\ call' = [call EXCEPT ![w] = Done(call[w])]
    /\ UNCHANGED <<inventory, lines, tasks, tickets, held, ncalls>>
    /\ Account(w, FALSE)
    /\ UNCHANGED waveVars

-----------------------------------------------------------------------------
\* The PL/pgSQL functions.  RAISE EXCEPTION (and any error of a statement)
\* leaves through EXCEPTION WHEN OTHERS, which re-raises: the transaction
\* rolls back, so none of its writes is ever visible and its locks are freed.

Fail(c, msg) == [Idle EXCEPT !.op = c.op, !.line = c.line, !.err = msg]

\* An error that ends the call without undoing the source update the call
\* has already made.
RaiseNoRollback(w, c, msg) ==
    /\ call' = [call EXCEPT ![w] = Fail(c, msg)]
    /\ inventory' = IF c.op = "move" /\ c.r1 # 0
                    THEN UpdateQuantity(inventory, c.r1, inventory[c.r1].quantity - c.qty)
                    ELSE inventory
    /\ UNCHANGED <<log, lines, tasks, tickets>>

Raise(w, c, msg) ==
    /\ call' = [call EXCEPT ![w] = Fail(c, msg)]
    /\ UNCHANGED tables

-----------------------------------------------------------------------------
\* moveStock / move_stock

\* steps 3-4: the source row gives up the quantity
UpdateSource(inv, r1, qty) == UpdateQuantity(inv, r1, inv[r1].quantity - qty)

\* step 5: the destination row receives it, or is created with it
UpdateOrCreateDest(inv, r2, loc, qty) ==
    IF r2 # 0
    THEN UpdateQuantity(inv, r2, inv[r2].quantity + qty)
    ELSE Append(inv, InventoryRow(loc, qty))

\* The stock check testing the sign of the source instead of comparing it
\* with the quantity asked for.
InsufficientAtSourceSign(srcQty, qty) == srcQty < 0

\* IF v_source.quantity < p_quantity
InsufficientAtSource(srcQty, qty) == srcQty < qty

\* moveStock's validation, then steps 1-2: lock the source row and check it
MoveLockSource(w, from, to, qty, user) ==
    /\ CanStart(w)
    /\ ncalls' = ncalls + 1
    /\ LET c == [Idle EXCEPT !.op = "move", !.user = user, !.loc = from, !.to = to, !.qty = qty]
           S == Matching(Warehouse, Product, from)
       IN  IF qty <= 0 THEN Raise(w, c, ErrQtyPositive)
           ELSE IF S = {} THEN Raise(w, c, ErrSourceNotFound)
           ELSE \E i \in S :
                    /\ RowFree(w, i)
                    /\ IF InsufficientAtSource(inventory[i].quantity, qty)
                       THEN Raise(w, c, ErrInsufficientSource)
                       ELSE /\ call' = [call EXCEPT ![w] = [c EXCEPT !.pc = "dest", !.r1 = i]]
                            /\ UNCHANGED tables
    /\ UNCHANGED held
    /\ Account(w, TRUE)
    /\ UNCHANGED waveVars

\* step 5, the SELECT ... FOR UPDATE of the destination: lock it, or find none
MoveLockDest(w) ==
    /\ call[w].op = "move" /\ call[w].pc = "dest"
    /\ LET S == Matching(Warehouse, Product, call[w].to)
       IN  IF S = {}
           THEN call' = [call EXCEPT ![w].pc = "commit", ![w].r2 = 0]
           ELSE \E i \in S :
                    /\ RowFree(w, i)
                    /\ call' = [call EXCEPT ![w].pc = "commit", ![w].r2 = i]
    /\ UNCHANGED <<tables, held, ncalls>>
    /\ Account(w, FALSE)
    /\ UNCHANGED waveVars

\* steps 5-7: the destination write, the log insert and the commit
MoveCommit(w) ==
    /\ call[w].op = "move" /\ call[w].pc = "commit"
    /\ LET c == call[w] IN
       IF c.r2 = 0 /\ UniqueViolation(InventoryRow(c.to, c.qty))
       THEN Raise(w, c, ErrMoveFK)
       ELSE IF ~UserExists(c.user)
       THEN Raise(w, c, ErrMoveFK)
       ELSE /\ inventory' = UpdateOrCreateDest(UpdateSource(inventory, c.r1, c.qty),
                                               c.r2, c.to, c.qty)
            /\ log' = Append(log, TxEntry("move", c.user, c.loc, c.to, c.qty, NULL, NoNote))
            /\ call' = [call EXCEPT ![w] = Done(c)]
            /\ UNCHANGED <<lines, tasks, tickets>>
    /\ UNCHANGED <<held, ncalls>>
    /\ Account(w, FALSE)
    /\ UNCHANGED waveVars

\* w, holding its source row, waits for a destination row that v holds
WaitsFor(w, v) ==
    /\ call[w].op = "move" /\ call[w].pc = "dest"
    /\ \E i \in Matching(Warehouse, Product, call[w].to) : v \in RowLockedBy(i)

\* two sessions wait for each other: the database aborts one of them
DeadlockDetected(w) ==
    /\ \E v \in Workers \ {w} : WaitsFor(w, v) /\ WaitsFor(v, w)
    /\ Raise(w, call[w], ErrMoveDeadlock)
    /\ UNCHANGED <<held, ncalls>>
    /\ Account(w, FALSE)
    /\ UNCHANGED waveVars

-----------------------------------------------------------------------------
\* adjustStock / adjust_stock

\* steps 1-3 up to the write: lock the row if there is one, compute and check
AdjustLock(w, loc, delta, user, reason) ==
    /\ CanStart(w)
    /\ ncalls' = ncalls + 1
    /\ LET c == [Idle EXCEPT !.op = "adjust", !.user = user, !.loc = loc, !.qty = delta,
                             !.reason = reason]
           S == Matching(Warehouse, Product, loc)
       IN  IF S = {}
           THEN IF delta < 0 THEN Raise(w, c, ErrAdjustNegative)
                ELSE IF delta <= 0 THEN Raise(w, c, ErrAdjustNoStock)
                ELSE /\ call' = [call EXCEPT ![w] = [c EXCEPT !.pc = "commit", !.r1 = 0]]
                     /\ UNCHANGED tables
           ELSE \E i \in S :
                    /\ RowFree(w, i)
                    /\ IF inventory[i].quantity + delta < 0
                       THEN Raise(w, c, ErrAdjustNegative)
                       ELSE /\ call' = [call EXCEPT ![w] = [c EXCEPT !.pc = "commit", !.r1 = i]]
                            /\ UNCHANGED tables
    /\ UNCHANGED held
    /\ Account(w, TRUE)
    /\ UNCHANGED waveVars

\* step 3: the row takes the new quantity, or is created with it
UpdateOrInsert(inv, r1, loc, delta) ==
    IF r1 # 0
    THEN UpdateQuantity(inv, r1, inv[r1].quantity + delta)
    ELSE Append(inv, InventoryRow(loc, delta))

\* steps 3-5: the write, the log insert and the commit
AdjustCommit(w) ==
    /\ call[w].op = "adjust" /\ call[w].pc = "commit"
    /\ LET c == call[w] IN
       IF c.r1 = 0 /\ UniqueViolation(InventoryRow(c.loc, c.qty))
       THEN Raise(w, c, ErrAdjustFK)
       ELSE IF ~UserExists(c.user)
       THEN Raise(w, c, ErrAdjustFK)
       ELSE /\ inventory' = UpdateOrInsert(inventory, c.r1, c.loc, c.qty)
            /\ log' = Append(log, TxEntry("adjust", c.user, c.loc, c.loc, c.qty, NULL, Note(c.reason, 0)))
            /\ call' = [call EXCEPT ![w] = Done(c)]
            /\ UNCHANGED <<lines, tasks, tickets>>
    /\ UNCHANGED <<held, ncalls>>
    /\ Account(w, FALSE)
    /\ UNCHANGED waveVars

-----------------------------------------------------------------------------
\* complete_pick

\* The selection without its picked_by filter.
AssignedIgnoringUser(l, user) == lines[l].status = "in_progress"

\* The selection that takes any line the caller has pulled and not given back,
\* completed or not.
AssignedNotPending(l, user) ==
    lines[l].picked_by = user /\ lines[l].status # "pending"

\* The selection without its status filter.
AssignedAnyStatus(l, user) == lines[l].picked_by = user

\* WHERE sl.id = p_line_id AND sl.picked_by = p_user_id AND sl.status = 'in_progress'
AssignedInProgress(l, user) ==
    lines[l].picked_by = user /\ lines[l].status = "in_progress"

\* step 1: find the caller's in-progress line and lock it
CompletePickLock(w, l) ==
    /\ CanStart(w)
    /\ ncalls' = ncalls + 1
    /\ LET c == [Idle EXCEPT !.op = "pick", !.user = w, !.line = l] IN
       IF ~AssignedInProgress(l, w)
       THEN Raise(w, c, ErrPickNotAssigned)
       ELSE /\ LineFree(w, l)
            /\ call' = [call EXCEPT ![w] = [c EXCEPT !.pc = "inv"]]
            /\ UNCHANGED tables
    /\ UNCHANGED held
    /\ Account(w, TRUE)
    /\ UNCHANGED waveVars

\* steps 2-7: lock the inventory row, check, write the row, the line and the log, commit
CompletePickCommit(w) ==
    /\ call[w].op = "pick" /\ call[w].pc = "inv"
    /\ LET c == call[w]
           line == lines[c.line]
           S == Matching(Warehouse, line.product_id, line.location_id)
       IN  IF S = {}
           THEN Raise(w, c, ErrPickNoInventory) /\ UNCHANGED held
           ELSE \E i \in S :
                    /\ RowFree(w, i)
                    /\ IF inventory[i].quantity - line.quantity < 0
                       THEN Raise(w, c, ErrPickInsufficient) /\ UNCHANGED held
                       ELSE /\ inventory' = UpdateQuantity(inventory, i,
                                                 inventory[i].quantity - line.quantity)
                            /\ lines' = [lines EXCEPT ![c.line].status = "picked",
                                                      ![c.line].picked_at = TRUE]
                            /\ log' = Append(log, TxEntry("pick", c.user, line.location_id, NULL,
                                                          line.quantity, line.shipment_id, NoNote))
                            /\ call' = [call EXCEPT ![w] = Done(c)]
                            /\ held' = [held EXCEPT ![w] = @ \ {<<"pick", c.line>>}]
                            /\ UNCHANGED <<tasks, tickets>>
    /\ UNCHANGED ncalls
    /\ Account(w, FALSE)
    /\ UNCHANGED waveVars

-----------------------------------------------------------------------------
\* complete_pick_with_shortage

Ticket(l, line, actual, shortage, user) ==
    [warehouse_id |-> Warehouse, ticket_type |-> "short_pick", status |-> "open",
     priority |-> "high", reference_type |-> "shipment_line", reference_id |-> l,
     product_id |-> line.product_id, location_id |-> line.location_id,
     expected_quantity |-> line.quantity, actual_quantity |-> actual,
     shortage_quantity |-> shortage, created_by |-> user]

\* step 1 and the validation of the actual quantity
ShortPickLock(w, l, actual) ==
    /\ CanStart(w)
    /\ ncalls' = ncalls + 1
    /\ LET c == [Idle EXCEPT !.op = "shortpick", !.user = w, !.line = l, !.qty = actual] IN
       IF ~AssignedInProgress(l, w)
       THEN Raise(w, c, ErrPickNotAssigned)
       ELSE /\ LineFree(w, l)
            /\ IF actual < 0 THEN Raise(w, c, ErrActualNegative)
               ELSE IF actual > lines[l].quantity THEN Raise(w, c, ErrActualExceeds)
               ELSE /\ call' = [call EXCEPT ![w] = [c EXCEPT !.pc = "inv"]]
                    /\ UNCHANGED tables
    /\ UNCHANGED held
    /\ Account(w, TRUE)
    /\ UNCHANGED waveVars

\* The line update that marks every line short.
UpdateShipmentLineAlwaysShort(l, actual, shortage) ==
    [lines EXCEPT ![l].quantity = actual, ![l].status = "short_picked",
                  ![l].picked_at = TRUE, ![l].notes = Note("Short picked", shortage)]

\* step 5: the line is truncated and marked short, or marked picked
UpdateShipmentLine(l, actual, shortage) ==
    IF shortage > 0
    THEN [lines EXCEPT ![l].quantity = actual, ![l].status = "short_picked",
                       ![l].picked_at = TRUE, ![l].notes = Note("Short picked", shortage)]
    ELSE [lines EXCEPT ![l].status = "picked", ![l].picked_at = TRUE]

\* A short pick that raises no ticket.
CreateTicketSkipped(l, line, actual, shortage, user) == tickets

\* step 5: a problem ticket for a short pick
CreateTicket(l, line, actual, shortage, user) ==
    IF shortage > 0
    THEN Append(tickets, Ticket(l, line, actual, shortage, user))
    ELSE tickets

\* steps 2-7: lock the inventory row, check, write the row, the line, the ticket and the log, commit
ShortPickCommit(w) ==
    /\ call[w].op = "shortpick" /\ call[w].pc = "inv"
    /\ LET c == call[w]
           line == lines[c.line]
           shortage == line.quantity - c.qty
           S == Matching(Warehouse, line.product_id, line.location_id)
       IN  IF S = {}
           THEN Raise(w, c, ErrPickNoInventory) /\ UNCHANGED held
           ELSE \E i \in S :
                    /\ RowFree(w, i)
                    /\ IF inventory[i].quantity - c.qty < 0
                       THEN Raise(w, c, ErrPickInsufficient) /\ UNCHANGED held
                       ELSE /\ inventory' = UpdateQuantity(inventory, i, inventory[i].quantity - c.qty)
                            /\ lines' = UpdateShipmentLine(c.line, c.qty, shortage)
                            /\ tickets' = CreateTicket(c.line, line, c.qty, shortage, c.user)
                            /\ log' = Append(log, TxEntry("pick", c.user, line.location_id, NULL,
                                                c.qty, line.shipment_id,
                                                IF shortage > 0 THEN Note("Short pick", shortage)
                                                ELSE NoNote))
                            /\ call' = [call EXCEPT ![w] = Done(c)]
                            /\ held' = [held EXCEPT ![w] = @ \ {<<"pick", c.line>>}]
                            /\ UNCHANGED tasks
    /\ UNCHANGED ncalls
    /\ Account(w, FALSE)
    /\ UNCHANGED waveVars

-----------------------------------------------------------------------------
\* The conditional updates on task rows: one UPDATE ... WHERE each, which the
\* database applies to the row as it is when the update takes the row's lock.

TaskOpDone(w, op, t, ok, msg) ==
    call' = [call EXCEPT ![w] = [Idle EXCEPT !.op = op, !.line = t,
                                             !.err = IF ok THEN "" ELSE msg]]

\* The update without its status filter.
IsPendingUnfiltered(t) == t \in DOMAIN tasks

\* .eq('status', 'pending')
IsPending(t) == t \in DOMAIN tasks /\ tasks[t].status = "pending"

\* The update without its status filter on the owner's task.
OwnedAnyStatus(t, user) == tasks[t].assigned_to = user

\* The update without its assigned_to filter.
InProgressOnly(t, user) == tasks[t].status = "in_progress"

\* .eq('assigned_to', userId).eq('status', 'in_progress')
OwnedInProgress(t, user) == tasks[t].assigned_to = user /\ tasks[t].status = "in_progress"

\* An update that sets the status and leaves the assignee as it is.
AssignTaskStatusOnly(t, user) == [tasks EXCEPT ![t].status = "in_progress"]

\* .update({ status: 'in_progress', assigned_to: userId })
AssignTask(t, user) == [tasks EXCEPT ![t].status = "in_progress", ![t].assigned_to = user]

\* pullPutawayTask: .eq('id', taskId).eq('status', 'pending')
pullPutawayTask(w, t) ==
    /\ CanStartTaskOp(w)
    /\ LET ok == IsPending(t) IN
       /\ tasks' = IF ok THEN AssignTask(t, w) ELSE tasks
       /\ held' = IF ok THEN [held EXCEPT ![w] = @ \cup {<<"putaway", t>>}] ELSE held
       /\ TaskOpDone(w, "pullPutaway", t, ok, ErrPullPutaway)
    /\ UNCHANGED <<inventory, log, lines, tickets, ncalls>>
    /\ Account(w, TRUE)
    /\ UNCHANGED waveVars

\* completePutawayTask: .eq('id', taskId).eq('assigned_to', userId).eq('status', 'in_progress')
completePutawayTask(w, t) ==
    /\ CanStartTaskOp(w)
    /\ LET ok == OwnedInProgress(t, w) IN
       /\ tasks' = IF ok THEN [tasks EXCEPT ![t].status = "completed", ![t].completed_at = TRUE]
                   ELSE tasks
       /\ held' = IF ok THEN [held EXCEPT ![w] = @ \ {<<"putaway", t>>}] ELSE held
       /\ TaskOpDone(w, "completePutaway", t, ok, ErrCompletePutaway)
    /\ UNCHANGED <<inventory, log, lines, tickets, ncalls>>
    /\ Account(w, TRUE)
    /\ UNCHANGED waveVars

\* Release of a putaway task
releasePutawayTask(w, t) ==
    /\ CanStartTaskOp(w)
    /\ LET ok == OwnedInProgress(t, w) IN
       /\ tasks' = IF ok THEN [tasks EXCEPT ![t].status = "pending", ![t].assigned_to = NULL]
                   ELSE tasks
       /\ held' = IF ok THEN [held EXCEPT ![w] = @ \ {<<"putaway", t>>}] ELSE held
       /\ TaskOpDone(w, "releasePutaway", t, ok, ErrReleasePutaway)
    /\ UNCHANGED <<inventory, log, lines, tickets, ncalls>>
    /\ Account(w, TRUE)
    /\ UNCHANGED waveVars

\* pullPick: Pull of a pick line
pullPick(w, l) ==
    /\ CanStartTaskOp(w)
    /\ LineFree(w, l)
    /\ LET ok == lines[l].status = "pending" IN
       /\ lines' = IF ok THEN [lines EXCEPT ![l].status = "in_progress", ![l].picked_by = w]
                   ELSE lines
       /\ held' = IF ok THEN [held EXCEPT ![w] = @ \cup {<<"pick", l>>}] ELSE held
       /\ TaskOpDone(w, "pullPick", l, ok, ErrPullPick)
    /\ UNCHANGED <<inventory, log, tasks, tickets, ncalls>>
    /\ Account(w, TRUE)
    /\ UNCHANGED waveVars

\* releasePick: Release of a pick line
releasePick(w, l) ==
    /\ CanStartTaskOp(w)
    /\ LineFree(w, l)
    /\ LET ok == AssignedInProgress(l, w) IN
       /\ lines' = IF ok THEN [lines EXCEPT ![l].status = "pending", ![l].picked_by = NULL]
                   ELSE lines
       /\ held' = IF ok THEN [held EXCEPT ![w] = @ \ {<<"pick", l>>}] ELSE held
       /\ TaskOpDone(w, "releasePick", l, ok, ErrReleasePick)
    /\ UNCHANGED <<inventory, log, tasks, tickets, ncalls>>
    /\ Account(w, TRUE)
    /\ UNCHANGED waveVars

-----------------------------------------------------------------------------
\* The stock mutators, called by concurrent sessions.
Next ==
    \E w \in Workers :
        \/ \E loc \in Locations, qty \in ReceiveQtys, user \in {w, NoSuchUser} :
               AddStockSelect(w, loc, qty, user)
        \/ AddStockWrite(w)
        \/ AddStockLog(w)
        \/ \E from \in Locations, to \in Locations, qty \in MoveQtys, user \in {w, NoSuchUser} :
               MoveLockSource(w, from, to, qty, user)
        \/ MoveLockDest(w)
        \/ MoveCommit(w)
        \/ DeadlockDetected(w)
        \/ \E loc \in Locations, delta \in Deltas : AdjustLock(w, loc, delta, w, Reason)
        \/ AdjustCommit(w)
        \/ \E l \in Lines : CompletePickLock(w, l)
        \/ CompletePickCommit(w)
        \/ \E l \in Lines, actual \in ActualQtys : ShortPickLock(w, l, actual)
        \/ ShortPickCommit(w)

Spec == Init /\ [][Next]_vars

\* The task state machine of putaway tasks and pick lines, with the pick
\* completions, called by concurrent sessions.
NextTasks ==
    \E w \in Workers :
        \/ \E t \in Tasks \cup {NoSuchTask} : pullPutawayTask(w, t)
        \/ \E t \in Tasks : completePutawayTask(w, t)
        \/ \E t \in Tasks : releasePutawayTask(w, t)
        \/ \E l \in Lines : pullPick(w, l)
        \/ \E l \in Lines : releasePick(w, l)
        \/ \E l \in Lines : CompletePickLock(w, l)
        \/ CompletePickCommit(w)
        \/ \E l \in Lines, actual \in ActualQtys : ShortPickLock(w, l, actual)
        \/ ShortPickCommit(w)

SpecTasks == InitTasks /\ [][NextTasks]_vars

\* Adjust alone, called by concurrent sessions with any reason and user.
NextAdjust ==
    \E w \in Workers :
        \/ \E loc \in Locations, delta \in Deltas, user \in {w, NoSuchUser},
              reason \in Reasons : AdjustLock(w, loc, delta, user, reason)
        \/ AdjustCommit(w)

SpecAdjust == Init /\ [][NextAdjust]_vars

-----------------------------------------------------------------------------
\* Wave planning: preCheckInventoryCommitment and createWave.  The ledger and
\* the pick lines do not change while a wave is planned; each query of the
\* client reads the tables as they are.

\* A ledger row of any warehouse and product.
StockRow(wh, prod, loc, qty) ==
    [InventoryRow(loc, qty) EXCEPT !.warehouse_id = wh, !.product_id = prod]

\* A pending pick line of shipment s for product prod.
OrderLine(s, prod, qty) ==
    [PickLine(qty, "pending", NULL) EXCEPT !.shipment_id = s, !.product_id = prod]

\* Stock of p1 at two locations of wh1 and in wh2, stock of p2 in wh1; both
\* shipments order p1, and s2 orders p2 as well.
InitWaves ==
    /\ \E q1 \in 0 .. MaxQty, q2 \in 0 .. MaxQty, q3 \in 0 .. MaxQty :
           inventory = <<StockRow("wh1", "p1", "A", q1), StockRow("wh1", "p1", "B", 1),
                         StockRow("wh2", "p1", "A", q2), StockRow("wh1", "p2", "A", q3)>>
    /\ \E a \in 1 .. MaxQty, b \in 1 .. MaxQty :
           lines = [l \in {1, 2, 3} |->
                       IF l = 1 THEN OrderLine("s1", "p1", a)
                       ELSE IF l = 2 THEN OrderLine("s2", "p1", b)
                       ELSE OrderLine("s2", "p2", 1)]
    /\ log = <<>>
    /\ tasks = [t \in Tasks |-> PutawayTask]
    /\ tickets = <<>>
    /\ call = [w \in Workers |-> Idle]
    /\ held = [w \in Workers |-> {}]
    /\ eff = [w \in Workers |-> NoEffect]
    /\ ncalls = 0
    /\ applied = <<>>
    /\ NoWavePlanning

\* .from('shipment_lines').select(...).in('shipment_id', shipmentIds)
LinesOf(ids) == {l \in DOMAIN lines : lines[l].shipment_id \in ids}

RECURSIVE SumLineQty(_)
\* rawLines.forEach: requirements[line.product_id].qty += line.quantity
SumLineQty(ls) ==
    IF ls = {} THEN 0
    ELSE LET l == CHOOSE x \in ls : TRUE
         IN  lines[l].quantity + SumLineQty(ls \ {l})

Requirements(ids) ==
    [p \in {lines[l].product_id : l \in LinesOf(ids)} |->
        SumLineQty({l \in LinesOf(ids) : lines[l].product_id = p})]

RECURSIVE ReduceQuantity(_, _)
\* inv.reduce((sum, item) => sum + item.quantity, 0) over the rows selected
\* with .eq('product_id', productId)
ReduceQuantity(prod, n) ==
    IF n = 0 THEN 0
    ELSE ReduceQuantity(prod, n - 1)
            + (IF inventory[n].product_id = prod THEN inventory[n].quantity ELSE 0)

\* The reduction that stops after the first selected row.
TotalAvailFirstRow(prod) ==
    LET sel == {i \in DOMAIN inventory : inventory[i].product_id = prod}
    IN  IF sel = {} THEN 0
        ELSE inventory[CHOOSE i \in sel : \A j \in sel : i <= j].quantity

TotalAvail(prod) == ReduceQuantity(prod, Len(inventory))

preCheckInventoryCommitment(ids) ==
    LET req == Requirements(ids)
        shortages == {[product_id |-> p, missing_qty |-> req[p] - TotalAvail(p)] :
                         p \in {x \in DOMAIN req : TotalAvail(x) < req[x]}}
    IN  [op |-> "check", ids |-> ids,
         can_fulfill |-> shortages = {}, shortages |-> shortages]

\* A planner runs the commitment check on some shipments.
CheckWaveCommitment(ids) ==
    /\ wcall.pc = "done"
    /\ commitment' = preCheckInventoryCommitment(ids)
    /\ UNCHANGED <<inventory, log, lines, tasks, tickets, call, held, eff, ncalls, applied,
                   waves, shipments, wcall, queue, validation>>

ErrShortage == "Inventory Shortage: Cannot release wave."

\* createWave, first statement: insert the wave row.
CreateWaveInsert(wh, ids) ==
    /\ wcall.pc = "done"
    /\ Len(waves) < MaxWaves
    /\ waves' = Append(waves, WaveRow(wh, Cardinality(ids)))
    /\ wcall' = IF ids = {}
                THEN [NoWaveCall EXCEPT !.op = "createWave", !.wave = Len(waves) + 1,
                                        !.n0 = Len(waves)]
                ELSE [op |-> "createWave", pc |-> "check", ids |-> ids,
                      wave |-> Len(waves) + 1, n0 |-> Len(waves), err |-> ""]
    /\ UNCHANGED <<inventory, log, lines, tasks, tickets, call, held, eff, ncalls, applied,
                   shipments, commitment, queue, validation>>

\* createWave, with shipments: the commitment check, then the shipments are
\* given the wave's id.
CreateWaveAttach ==
    /\ wcall.pc = "check"
    /\ LET c == preCheckInventoryCommitment(wcall.ids) IN
       /\ commitment' = c
       /\ IF ~c.can_fulfill
          THEN /\ wcall' = [wcall EXCEPT !.pc = "done", !.err = ErrShortage]
               /\ UNCHANGED shipments
          ELSE /\ shipments' = [s \in Shipments |->
                                   IF s \in wcall.ids
                                   THEN [shipments[s] EXCEPT !.wave_id = wcall.wave]
                                   ELSE shipments[s]]
               /\ wcall' = [wcall EXCEPT !.pc = "done"]
    /\ UNCHANGED <<inventory, log, lines, tasks, tickets, call, held, eff, ncalls, applied, waves,
                   queue, validation>>

ErrReleaseWave == "Failed to release wave. Please try again."

\* releaseWave: one conditional UPDATE, .eq('id', waveId).eq('status', 'pending')
releaseWave(waveId) ==
    /\ wcall.pc = "done"
    /\ IF waveId \in DOMAIN waves /\ waves[waveId].status = "pending"
       THEN /\ waves' = [waves EXCEPT ![waveId].status = "picking",
                                      ![waveId].released_at = TRUE]
            /\ wcall' = [NoWaveCall EXCEPT !.op = "releaseWave", !.wave = waveId]
       ELSE /\ waves' = waves
            /\ wcall' = [NoWaveCall EXCEPT !.op = "releaseWave", !.wave = waveId,
                                           !.err = ErrReleaseWave]
    /\ UNCHANGED <<inventory, log, lines, tasks, tickets, call, held, eff, ncalls, applied,
                   shipments, commitment, queue, validation>>

NextWaves ==
    \/ \E ids \in SUBSET Shipments : CheckWaveCommitment(ids)
    \/ \E ids \in SUBSET Shipments : CreateWaveInsert(Warehouse, ids)
    \/ CreateWaveAttach
    \/ \E waveId \in 1 .. MaxWaves : releaseWave(waveId)

SpecWaves == InitWaves /\ [][NextWaves]_vars

-----------------------------------------------------------------------------
\* get_optimized_pick_queue.  The function reads the tables and changes
\* nothing; it is applied to tables drawn from small sets.

\* The locations table: zone, aisle and section of each pick location, each
\* given by its rank in the column's sort order.
PickLocations ==
    [L1 |-> [zone |-> 1, aisle |-> 1, section |-> 1],
     L2 |-> [zone |-> 1, aisle |-> 1, section |-> 2],
     L3 |-> [zone |-> 1, aisle |-> 2, section |-> 1],
     L4 |-> [zone |-> 2, aisle |-> 1, section |-> 1]]

QueueShipments == {"s1", "s2", "s3"}
QueueLines == {1, 2, 3}

\* Three pick lines at any locations, of three shipments with any priorities
\* and creation times; s3 belongs to either warehouse, s2 is in wave 1 or in
\* no wave, and the third line is pending or already pulled.
InitQueue ==
    /\ \E loc \in [QueueLines -> DOMAIN PickLocations], st \in {"pending", "in_progress"},
          s \in {"s1", "s3"} :
           lines = [l \in QueueLines |->
                       [PickLine(1, IF l = 3 THEN st ELSE "pending", NULL)
                           EXCEPT !.location_id = loc[l],
                                  !.shipment_id = IF l = 1 THEN "s1"
                                                  ELSE IF l = 2 THEN "s2" ELSE s]]
    /\ \E p1 \in {1, 2}, p2 \in {1, 2}, c2 \in {1, 2}, w2 \in {0, 1}, wh3 \in Warehouses :
           shipments =
               [s \in QueueShipments |->
                   IF s = "s1"
                   THEN [ShipmentRow EXCEPT !.wave_id = 1, !.priority = p1, !.created_at = 2]
                   ELSE IF s = "s2"
                   THEN [ShipmentRow EXCEPT !.wave_id = w2, !.priority = p2, !.created_at = c2]
                   ELSE [ShipmentRow EXCEPT !.warehouse_id = wh3, !.wave_id = 1,
                                            !.priority = 3, !.created_at = 3]]
    /\ inventory = <<InventoryRow("A", InitQty)>>
    /\ log = <<>>
    /\ tasks = [t \in Tasks |-> PutawayTask]
    /\ tickets = <<>>
    /\ call = [w \in Workers |-> Idle]
    /\ held = [w \in Workers |-> {}]
    /\ eff = [w \in Workers |-> NoEffect]
    /\ ncalls = 0
    /\ applied = <<>>
    /\ waves = <<>>
    /\ wcall = NoWaveCall
    /\ commitment = NoCommitment
    /\ queue = NoQueue
    /\ validation = NoValidation

\* WHERE s.warehouse_id = p_warehouse_id AND sl.status = 'pending'
\*   AND (p_wave_id IS NULL OR s.wave_id = p_wave_id); 0 stands for NULL
QueueSelected(wh, wave) ==
    {l \in DOMAIN lines :
        /\ shipments[lines[l].shipment_id].warehouse_id = wh
        /\ lines[l].status = "pending"
        /\ (wave = 0 \/ shipments[lines[l].shipment_id].wave_id = wave)}

\* The sort key with the priority ascending.
QueueKeyPriorityAscending(l) ==
    <<PickLocations[lines[l].location_id].zone,
      PickLocations[lines[l].location_id].aisle,
      PickLocations[lines[l].location_id].section,
      shipments[lines[l].shipment_id].priority,
      shipments[lines[l].shipment_id].created_at>>

\* ORDER BY l.zone ASC, l.aisle ASC, l.section ASC, s.priority DESC, s.created_at ASC
QueueKey(l) ==
    <<PickLocations[lines[l].location_id].zone,
      PickLocations[lines[l].location_id].aisle,
      PickLocations[lines[l].location_id].section,
      0 - shipments[lines[l].shipment_id].priority,
      shipments[lines[l].shipment_id].created_at>>

\* k1 sorts strictly before k2: smaller at the first column where they differ
SortsBefore(k1, k2) ==
    \E n \in DOMAIN k1 :
        /\ k1[n] < k2[n]
        /\ \A m \in 1 .. (n - 1) : k1[m] = k2[m]

\* The orders in which the rows of S may be returned: rows with equal sort
\* keys come in any order.
SortedOrders(S) ==
    {q \in [1 .. Cardinality(S) -> S] :
        /\ \A i, j \in DOMAIN q : i # j => q[i] # q[j]
        /\ \A i, j \in DOMAIN q : i < j => ~SortsBefore(QueueKey(q[j]), QueueKey(q[i]))}

get_optimized_pick_queue(wh, wave) ==
    /\ \E q \in SortedOrders(QueueSelected(wh, wave)) :
           queue' = [op |-> "queue", wh |-> wh, wave |-> wave, rows |-> q]
    /\ UNCHANGED <<inventory, log, lines, tasks, tickets, call, held, eff, ncalls, applied,
                   waves, shipments, wcall, commitment, validation>>

NextQueue ==
    \E wh \in Warehouses, wave \in {0, 1} : get_optimized_pick_queue(wh, wave)

SpecQueue == InitQueue /\ [][NextQueue]_vars

-----------------------------------------------------------------------------
\* The input schemas.  A number is given by its double (twice), so that the
\* halves (0.5, 1.5, ...) can be submitted as well as the integers: the
\* number is an integer when its double is even.

\* .max(99999, ...)
MaxQuantity == 99999

\* The numbers submitted: those within Spread halves of zero and of the maximum.
QuantityInputs ==
    ((0 - Spread) .. Spread) \cup ((2 * MaxQuantity - Spread) .. (2 * MaxQuantity + Spread))

\* .int(...)
IsInt(twice) == twice % 2 = 0

\* A quantity check that lets zero through.
quantitySchemaNonNegative(twice) ==
    IsInt(twice) /\ twice >= 0 /\ twice <= 2 * MaxQuantity

\* z.number().int(...).positive(...).max(99999, ...)
quantitySchema(twice) ==
    IsInt(twice) /\ twice > 0 /\ twice <= 2 * MaxQuantity

\* z.object({..., quantity: quantitySchema, ...}), the identifiers being valid
addStockSchema(twice) == quantitySchema(twice)
moveStockSchema(twice) == quantitySchema(twice)

Schemas == {"quantitySchema", "addStockSchema", "moveStockSchema"}

\* safeValidate: schema.safeParse(data).success
safeValidate(schema, twice) ==
    /\ validation' =
           [op |-> schema, twice |-> twice,
            success |-> IF schema = "quantitySchema" THEN quantitySchema(twice)
                        ELSE IF schema = "addStockSchema" THEN addStockSchema(twice)
                        ELSE moveStockSchema(twice)]
    /\ UNCHANGED <<inventory, log, lines, tasks, tickets, call, held, eff, ncalls, applied,
                   waves, shipments, wcall, commitment, queue>>

NextQuantity ==
    \E schema \in Schemas, twice \in QuantityInputs : safeValidate(schema, twice)

SpecQuantity == InitTasks /\ [][NextQuantity]_vars
-----------------------------------------------------------------------------
\* Properties.

Failed(w) == call[w].pc = "done" /\ call[w].err # ""
Succeeded(w) == call[w].pc = "done" /\ call[w].err = "" /\ call[w].op # "none"
TaskKeys == {<<"putaway", t>> : t \in Tasks} \cup {<<"pick", l>> : l \in Lines}

\* C1: in every reachable state, under any interleaving of Receive, Move,
\* Adjust, CompletePick and CompletePickWithShortage calls, every ledger row
\* has quantity >= 0.
C1_NonNegative == \A i \in DOMAIN inventory : inventory[i].quantity >= 0

\* A call was refused for lack of stock while a row stands at zero.
C1_Witness ==
    /\ \E i \in DOMAIN inventory : inventory[i].quantity = 0
    /\ \E w \in Workers :
           call[w].err \in {ErrInsufficientSource, ErrAdjustNegative, ErrPickInsufficient}

\* C2: at most one worker holds a task at any time: a task whose Pull has
\* succeeded for one worker is held by no other worker until it is released,
\* and the holder is the worker the task row names.
C2_AtMostOneHolder ==
    /\ \A k \in TaskKeys : Cardinality({w \in Workers : k \in held[w]}) <= 1
    /\ \A w \in Workers :
        /\ \A t \in Tasks : <<"putaway", t>> \in held[w] =>
               tasks[t].status = "in_progress" /\ tasks[t].assigned_to = w
        /\ \A l \in Lines : <<"pick", l>> \in held[w] =>
               lines[l].status = "in_progress" /\ lines[l].picked_by = w

\* One worker holds putaway task 1 and the other worker's Pull on it has failed.
C2_Witness ==
    \E w \in Workers, v \in Workers :
        /\ w # v
        /\ <<"putaway", 1>> \in held[w]
        /\ call[v].op = "pullPutaway" /\ call[v].line = 1 /\ call[v].err = ErrPullPutaway

\* C3: a failed Receive, Move, Adjust, CompletePick or CompletePickWithShortage
\* call has made nothing visible in the ledger, the movement log, the task
\* rows or the problem tickets.
C3_FailedCallWritesNothing ==
    \A w \in Workers :
        (Failed(w) /\ call[w].op \in {"receive", "move", "adjust", "pick", "shortpick"})
            => eff[w] = NoEffect

\* A Move has failed after its source update: at the log insert, or as the
\* victim of a deadlock.
C3_Witness ==
    \E w \in Workers : call[w].op = "move" /\ call[w].err \in {ErrMoveFK, ErrMoveDeadlock}
\* The fields of a log entry that name the call: type, quantity, product,
\* user and locations (ln is the pick-line table when the call was made).
EntryMatches(e, c, ln) ==
    /\ e.user_id = c.user
    /\ e.product_id = Product
    /\ CASE c.op = "receive" ->
              /\ e.transaction_type = "receive" /\ e.quantity = c.qty
              /\ e.location_id_from = NULL /\ e.location_id_to = c.loc
         [] c.op = "move" ->
              /\ e.transaction_type = "move" /\ e.quantity = c.qty
              /\ e.location_id_from = c.loc /\ e.location_id_to = c.to
         [] c.op = "adjust" ->
              /\ e.transaction_type = "adjust" /\ e.quantity = c.qty
              /\ e.location_id_from = c.loc /\ e.location_id_to = c.loc
         [] c.op = "pick" ->
              /\ e.transaction_type = "pick" /\ e.quantity = ln[c.line].quantity
              /\ e.location_id_from = ln[c.line].location_id /\ e.location_id_to = NULL
         [] c.op = "shortpick" ->
              /\ e.transaction_type = "pick" /\ e.quantity = c.qty
              /\ e.location_id_from = ln[c.line].location_id /\ e.location_id_to = NULL
         [] OTHER -> FALSE

\* C4: the step that ends a successful Receive, Move, Adjust, CompletePick or
\* CompletePickWithShortage call leaves the movement log with exactly one more
\* entry, whose type, quantity, product, user and locations match the call,
\* the call having appended nothing before; a call that ends in failure has
\* appended nothing.
C4_LogCompleteness ==
    [][\A w \in Workers :
          (call'[w] # call[w] /\ call'[w].pc = "done") =>
              IF call'[w].err = ""
              THEN /\ eff'[w].log = 1
                   /\ Len(log') = Len(log) + 1
                   /\ EntryMatches(log'[Len(log')], call[w], lines)
              ELSE eff'[w].log = 0 /\ log' = log]_vars

RECURSIVE TotalUpTo(_, _, _)
\* The total quantity of the first n rows of inv that lie at a location of locs.
TotalUpTo(inv, n, locs) ==
    IF n = 0 THEN 0
    ELSE TotalUpTo(inv, n - 1, locs)
            + (IF inv[n].location_id \in locs THEN inv[n].quantity ELSE 0)

TotalAt(inv, locs) == TotalUpTo(inv, Len(inv), locs)

\* The step by which a Move of session w commits.
MoveCommits(w) ==
    /\ call[w].op = "move" /\ call[w].pc = "commit"
    /\ call'[w].pc = "done" /\ call'[w].err = ""

\* What a committing Move of c.qty units from row c.r1 to row c.r2 does.
MoveEffect(c) ==
    /\ inventory'[c.r1].quantity = inventory[c.r1].quantity - c.qty
    /\ IF c.r2 # 0
       THEN inventory'[c.r2].quantity = inventory[c.r2].quantity + c.qty
       ELSE /\ Len(inventory') = Len(inventory) + 1
            /\ inventory'[Len(inventory')] = InventoryRow(c.to, c.qty)
    /\ TotalAt(inventory', {c.loc, c.to}) = TotalAt(inventory, {c.loc, c.to})

\* C5: every successful Move of q > 0 units from a to b leaves the source row
\* with exactly q less, the destination row with exactly q more (created with
\* q if it was absent), and the total over a and b unchanged.
C5_MoveConservation ==
    [][\A w \in Workers : MoveCommits(w) => MoveEffect(call[w])]_vars

\* C5, for two different locations: the same, for every successful Move from
\* a to b with a # b.
C5_MoveConservationDistinct ==
    [][\A w \in Workers :
          (MoveCommits(w) /\ call[w].loc # call[w].to) => MoveEffect(call[w])]_vars

\* Only Receive calls have run so far.
OnlyReceives ==
    /\ \A n \in DOMAIN log : log[n].transaction_type = "receive"
    /\ \A w \in Workers : call[w].op \in {"none", "receive"}

\* C6: when only Receive calls run, the write of a Receive of q units on an
\* existing row leaves the row with q more than it held just before the
\* write: no increment of a concurrent Receive is lost.
C6_ReceiveIncrementsRow ==
    [][\A w \in Workers :
          (/\ OnlyReceives
           /\ call[w].op = "receive" /\ call[w].pc = "write" /\ call'[w].pc = "log"
           /\ call[w].r1 # 0)
          => inventory'[call[w].r1].quantity
                = inventory[call[w].r1].quantity + call[w].qty]_vars

\* The step by which a short pick of session w (actual < line quantity) commits.
ShortPickCommits(w) ==
    /\ call[w].op = "shortpick" /\ call[w].pc = "inv"
    /\ call'[w].pc = "done" /\ call'[w].err = ""
    /\ call[w].qty < lines[call[w].line].quantity

C9_UniqueRows ==
    \A i \in DOMAIN inventory, j \in DOMAIN inventory :
        (/\ inventory[i].warehouse_id = inventory[j].warehouse_id
         /\ inventory[i].product_id = inventory[j].product_id
         /\ inventory[i].location_id = inventory[j].location_id
         /\ inventory[i].lot_number = inventory[j].lot_number) => i = j

\* C10: two concurrent Moves never wait for each other's row lock.
C10_NoDeadlock ==
    \A w \in Workers, v \in Workers : ~(w # v /\ WaitsFor(w, v) /\ WaitsFor(v, w))
RECURSIVE SumOver(_, _)
\* The sum of f[x] over the x of S.
SumOver(f, S) ==
    IF S = {} THEN 0
    ELSE LET x == CHOOSE y \in S : TRUE IN f[x] + SumOver(f, S \ {x})

\* The total quantity the lines of the shipments ids ask of product p.
Demand(p, ids) ==
    SumOver([l \in DOMAIN lines |-> lines[l].quantity],
            {l \in DOMAIN lines : lines[l].shipment_id \in ids /\ lines[l].product_id = p})

\* The total quantity of product p on the ledger rows of the warehouses whs.
Supply(p, whs) ==
    SumOver([i \in DOMAIN inventory |-> inventory[i].quantity],
            {i \in DOMAIN inventory : inventory[i].product_id = p
                                      /\ inventory[i].warehouse_id \in whs})

\* The shortage list for the shipments ids when the supply is counted over
\* the warehouses whs.
ShortageList(ids, whs) ==
    {[product_id |-> p, missing_qty |-> Demand(p, ids) - Supply(p, whs)] :
        p \in {x \in Products : Demand(x, ids) > Supply(x, whs)}}

\* C11: the commitment check over a set of shipments reports can_fulfill =
\* false exactly when some product's total line quantity over those shipments
\* exceeds the product's total quantity over all its ledger rows, and the
\* shortage list then holds exactly those products, each with missing
\* quantity = demand - supply.
C11_CommitmentCheck ==
    commitment.op = "check" =>
        /\ commitment.can_fulfill
              <=> ~\E p \in Products :
                     Demand(p, commitment.ids) > Supply(p, Warehouses)
        /\ commitment.shortages = ShortageList(commitment.ids, Warehouses)

\* Two shipments that each ask for MaxQty of p1 were checked against a total
\* supply one short of their demand: the check reported a shortage of 1.
C11_Witness ==
    /\ commitment.op = "check" /\ commitment.ids = Shipments
    /\ lines[1].quantity = MaxQty /\ lines[2].quantity = MaxQty
    /\ ~commitment.can_fulfill
    /\ [product_id |-> "p1", missing_qty |-> 1] \in commitment.shortages

\* C12: a createWave whose commitment check reports can_fulfill = false fails
\* and leaves the waves table and every shipment's wave_id as they were
\* before the call.
C12_RejectedWaveLeavesNothing ==
    [][(wcall.pc # "done" /\ wcall'.pc = "done" /\ ~commitment'.can_fulfill) =>
          /\ wcall'.err # ""
          /\ Len(waves') = wcall.n0
          /\ shipments' = shipments]_vars

\* C13: the supply the commitment check compares with a product's demand is
\* the product's ledger quantity in the shipments' own warehouse only.
C13_SupplyOfOwnWarehouse ==
    commitment.op = "check" =>
        /\ commitment.can_fulfill
              <=> ~\E p \in Products :
                     Demand(p, commitment.ids) > Supply(p, {Warehouse})
        /\ commitment.shortages = ShortageList(commitment.ids, {Warehouse})
\* C14: an Adjust on a (warehouse, product, location) with no ledger row
\* fails with the error for reducing stock that does not exist when delta <=
\* 0, creating no row and no log entry; with delta > 0 it goes on, and its
\* commit creates the row with quantity delta.
C14_AdjustAbsentRow ==
    [][\A w \in Workers :
          /\ \A loc \in Locations, delta \in Deltas, reason \in Reasons :
                (/\ Matching(Warehouse, Product, loc) = {}
                 /\ AdjustLock(w, loc, delta, w, reason))
                => IF delta <= 0
                   THEN /\ call'[w].pc = "done" /\ call'[w].err = ErrAdjustNoStock
                        /\ UNCHANGED tables
                   ELSE call'[w].pc = "commit" /\ call'[w].r1 = 0
          /\ (/\ call[w].op = "adjust" /\ call[w].pc = "commit" /\ call[w].r1 = 0
              /\ call[w].user = w /\ call'[w] # call[w])
                => /\ call'[w].err = ""
                   /\ inventory' = Append(inventory, InventoryRow(call[w].loc, call[w].qty))]_vars

\* C15: an Adjust called with an empty reason fails with MissingReason and
\* leaves the ledger and the log unchanged, and every adjust entry of the log
\* carries a non-empty reason in notes.
C15_MissingReason ==
    /\ [][\A w \in Workers : \A loc \in Locations, delta \in Deltas, user \in {w, NoSuchUser} :
             AdjustLock(w, loc, delta, user, "")
             => /\ call'[w].pc = "done" /\ call'[w].err = "MissingReason"
                /\ UNCHANGED tables]_vars
    /\ [](\A n \in DOMAIN log :
             log[n].transaction_type = "adjust" => log[n].notes.text # "")
\* The step by which a CompletePick of session w commits.
PickCommits(w) ==
    /\ call[w].op = "pick" /\ call[w].pc = "inv"
    /\ call'[w].pc = "done" /\ call'[w].err = ""

\* The step by which a CompletePickWithShortage of session w with actualQty =
\* line quantity commits.
FullShortPickCommits(w) ==
    /\ call[w].op = "shortpick" /\ call[w].pc = "inv"
    /\ call'[w].pc = "done" /\ call'[w].err = ""
    /\ call[w].qty = lines[call[w].line].quantity

\* The result of a full pick of line l by user: one ledger row at the line's
\* location has the line's quantity less, the line is picked with its
\* quantity unchanged, the log has one more pick entry for the line's
\* quantity, and there is no new ticket.
FullPickResult(l, user) ==
    /\ \E i \in Matching(Warehouse, lines[l].product_id, lines[l].location_id) :
           inventory' = UpdateQuantity(inventory, i, inventory[i].quantity - lines[l].quantity)
    /\ lines' = [lines EXCEPT ![l].status = "picked", ![l].picked_at = TRUE]
    /\ log' = Append(log, TxEntry("pick", user, lines[l].location_id, NULL,
                                  lines[l].quantity, lines[l].shipment_id, NoNote))
    /\ tickets' = tickets
    /\ tasks' = tasks

\* C16: from any state, a successful CompletePickWithShortage(line, user,
\* actualQty = line.quantity) and a successful CompletePick(line, user) give
\* the same result: the same ledger row, the line picked with its quantity
\* unchanged, the same log entry, and no ticket.
C16_FullShortPickIsCompletePick ==
    [][\A w \in Workers :
          (PickCommits(w) \/ FullShortPickCommits(w))
              => FullPickResult(call[w].line, call[w].user)]_vars

\* A CompletePickWithShortage with actualQty = line.quantity has committed.
C16_Witness ==
    \E w \in Workers :
        /\ call[w].op = "shortpick" /\ Succeeded(w)
        /\ lines[call[w].line].status = "picked"
\* The status changes of a putaway task and of a pick line.
TaskTransitions ==
    {<<"pending", "in_progress">>, <<"in_progress", "pending">>, <<"in_progress", "completed">>}

LineTransitions ==
    {<<"pending", "in_progress">>, <<"in_progress", "pending">>, <<"in_progress", "picked">>,
     <<"in_progress", "short_picked">>}

TerminalStatuses == {"completed", "picked", "short_picked"}

\* C17: every status change of a putaway task or pick line is a Pull
\* (pending -> in_progress), a Release (in_progress -> pending), a completion
\* (in_progress -> completed or picked) or a short pick (in_progress ->
\* short_picked), and a task or line in completed, picked or short_picked
\* keeps its status in every step.
C17_StatusTransitions ==
    [][/\ \A t \in Tasks :
             /\ tasks'[t].status # tasks[t].status
                   => <<tasks[t].status, tasks'[t].status>> \in TaskTransitions
             /\ tasks[t].status \in TerminalStatuses => tasks'[t].status = tasks[t].status
       /\ \A l \in Lines :
             /\ lines'[l].status # lines[l].status
                   => <<lines[l].status, lines'[l].status>> \in LineTransitions
             /\ lines[l].status \in TerminalStatuses => lines'[l].status = lines[l].status]_vars

\* The putaway task is completed and a Pull on it has failed since, and a
\* pick line is in a terminal status.
C17_Witness ==
    /\ tasks[1].status = "completed"
    /\ \E w \in Workers :
           call[w].op = "pullPutaway" /\ call[w].line = 1 /\ call[w].err = ErrPullPutaway
    /\ \E l \in Lines : lines[l].status \in {"picked", "short_picked"}
\* C18: a Release by user w succeeds exactly when the task (or line) is
\* in_progress and assigned to w, and then leaves it pending with its
\* assignee cleared; any other Release fails with NotAssignedToYou and
\* leaves the tables unchanged; and a Pull on a pending task succeeds for
\* whichever worker makes it.
C18_Release ==
    [][\A w \in Workers :
          (call'[w] # call[w] /\ call'[w].pc = "done") =>
              LET t == call'[w].line
                  ok == call'[w].err = ""
              IN  /\ call'[w].op = "releasePutaway" =>
                        /\ ok <=> (tasks[t].status = "in_progress" /\ tasks[t].assigned_to = w)
                        /\ ok => tasks'[t].status = "pending" /\ tasks'[t].assigned_to = NULL
                        /\ ~ok => call'[w].err = "NotAssignedToYou" /\ UNCHANGED tables
                  /\ call'[w].op = "releasePick" =>
                        /\ ok <=> (lines[t].status = "in_progress" /\ lines[t].picked_by = w)
                        /\ ok => lines'[t].status = "pending" /\ lines'[t].picked_by = NULL
                        /\ ~ok => call'[w].err = "NotAssignedToYou" /\ UNCHANGED tables
                  /\ (call'[w].op = "pullPutaway" /\ t \in Tasks /\ tasks[t].status = "pending")
                        => ok /\ tasks'[t].assigned_to = w
                  /\ (call'[w].op = "pullPick" /\ lines[t].status = "pending")
                        => ok /\ lines'[t].picked_by = w]_vars

\* A worker has released the putaway task and the other worker has pulled it
\* since, and a Release by a worker who does not hold a pick line has failed.
C18_Witness ==
    \E w \in Workers, v \in Workers :
        /\ w # v
        /\ call[w].op = "releasePutaway" /\ call[w].line = 1 /\ call[w].err = ""
        /\ tasks[1].status = "in_progress" /\ tasks[1].assigned_to = v
        /\ call[v].op = "releasePick" /\ call[v].err = ErrReleasePick
\* Row a of the queue may come before row b: by zone ascending, then aisle
\* ascending, then section ascending, then shipment priority descending,
\* then shipment creation time ascending.
MayPrecede(a, b) ==
    LET la == PickLocations[lines[a].location_id]
        lb == PickLocations[lines[b].location_id]
        sa == shipments[lines[a].shipment_id]
        sb == shipments[lines[b].shipment_id]
    IN  \/ la.zone < lb.zone
        \/ /\ la.zone = lb.zone
           /\ \/ la.aisle < lb.aisle
              \/ /\ la.aisle = lb.aisle
                 /\ \/ la.section < lb.section
                    \/ /\ la.section = lb.section
                       /\ \/ sa.priority > sb.priority
                          \/ /\ sa.priority = sb.priority
                             /\ sa.created_at <= sb.created_at

C20_PullErrorKinds ==
    [][\A w \in Workers :
          (call'[w] # call[w] /\ call'[w].op = "pullPutaway") =>
              LET t == call'[w].line IN
              /\ (t \notin DOMAIN tasks \/ tasks[t].status = "in_progress")
                    => call'[w].err # "" /\ tasks' = tasks
              /\ (t \in DOMAIN tasks /\ tasks[t].status = "in_progress")
                    => \A v \in Workers \ {w} :
                          (/\ call[v].op = "pullPutaway" /\ call[v].err # ""
                           /\ call[v].line \notin DOMAIN tasks)
                          => call'[w].err # call[v].err]_vars
\* C21: the movement log is append-only: in every step each entry present
\* before the step is present afterwards, unchanged and at the same place.
C21_LogAppendOnly ==
    [][/\ Len(log') >= Len(log)
       /\ SubSeq(log', 1, Len(log)) = log]_vars

\* The log holds a receive entry followed by a later entry.
C21_Witness ==
    /\ Len(log) >= 2
    /\ log[1].transaction_type = "receive"
\* The step that ends a CompletePickWithShortage call of session w.
ShortPickEnds(w) ==
    /\ call'[w] # call[w]
    /\ call'[w].op = "shortpick" /\ call'[w].pc = "done"

\* C22, as claimed: a CompletePickWithShortage fails only with NotAssigned
\* (the line is not in_progress for the caller) or InvalidQuantity (actualQty
\* < 0 or actualQty > line.quantity), so a call by the line's holder with
\* 0 <= actualQty <= line.quantity ends in success.
C22_OnlyTwoFailures ==
    [][\A w \in Workers :
          ShortPickEnds(w) =>
              call'[w].err \in {"", ErrPickNotAssigned, ErrActualNegative, ErrActualExceeds}]_vars

\* C22, amended: a CompletePickWithShortage fails with NotAssigned when the
\* line is not in_progress for the caller, else with InvalidQuantity when
\* actualQty < 0 or actualQty > line.quantity; a call by the holder with a
\* valid actualQty goes on to the ledger, where it fails when there is no
\* ledger row at the line's location or when the row it reads holds less
\* than actualQty, and succeeds otherwise.
C22_ShortPickFailures ==
    [][\A w \in Workers :
          /\ \A l \in Lines, actual \in ActualQtys :
                ShortPickLock(w, l, actual) =>
                    call'[w].err =
                        IF ~(lines[l].status = "in_progress" /\ lines[l].picked_by = w)
                        THEN ErrPickNotAssigned
                        ELSE IF actual < 0 THEN ErrActualNegative
                        ELSE IF actual > lines[l].quantity THEN ErrActualExceeds
                        ELSE ""
          /\ (call[w].op = "shortpick" /\ call[w].pc = "inv" /\ call'[w].pc = "done") =>
                LET line == lines[call[w].line]
                    S == Matching(Warehouse, line.product_id, line.location_id)
                IN  /\ call'[w].err \in {"", ErrPickNoInventory, ErrPickInsufficient}
                    /\ call'[w].err = ErrPickNoInventory <=> S = {}
                    /\ call'[w].err = ErrPickInsufficient
                          => \E i \in S : inventory[i].quantity < call[w].qty
                    /\ call'[w].err = ""
                          => \E i \in S : inventory[i].quantity >= call[w].qty]_vars

\* A CompletePickWithShortage of a line's holder has failed for lack of
\* stock.
C22_Witness ==
    \E w \in Workers :
        call[w].op = "shortpick" /\ call[w].pc = "done" /\ call[w].err = ErrPickInsufficient

\* C23: a validated quantity is accepted exactly when it is an integer n with
\* 1 <= n <= 99999; zero, the negative numbers and the numbers from 100000 on
\* are rejected, by quantitySchema and by the two schemas that use it.
C23_QuantityRange ==
    validation.op \in Schemas =>
        /\ validation.success <=>
               /\ validation.twice % 2 = 0
               /\ 1 <= validation.twice \div 2
               /\ validation.twice \div 2 <= 99999
        /\ validation.twice <= 0 => ~validation.success
        /\ validation.twice >= 2 * 100000 => ~validation.success

C23_Witness ==
    /\ validation.op = "moveStockSchema"
    /\ validation.twice = 2 * 99999
    /\ validation.success


\* A step of a call that session w has in flight.
Steps(w) == call[w].pc # "done" /\ call'[w] # call[w]

\* The step ends the call of w with success.
EndsWell(w) == call'[w].pc = "done" /\ call'[w].err = ""

\* C24: a successful Receive, Adjust, CompletePick or CompletePickWithShortage
\* writes exactly one ledger row, and a successful Move writes at most two,
\* rows of its source and destination locations, in one step; no step writes
\* any other ledger row or removes one, and a step of a pick completion
\* changes no putaway task and no pick line other than its own.
C24_FrameEffects ==
    [][/\ Len(inventory') >= Len(inventory)
       /\ Written # {} => \E w \in Workers : Steps(w)
       /\ \A w \in Workers : Steps(w) =>
            /\ call[w].op \in {"receive", "adjust", "pick", "shortpick"} =>
                   /\ Cardinality(Written) <= 1
                   /\ EndsWell(w) => eff'[w].ledger = 1
            /\ call[w].op = "move" =>
                   /\ Cardinality(Written) <= 2
                   /\ \A i \in Written :
                          inventory'[i].location_id \in {call[w].loc, call[w].to}
                   /\ EndsWell(w) => eff'[w].ledger = 1
            /\ call[w].op \in {"pick", "shortpick"} =>
                   /\ tasks' = tasks
                   /\ \A l \in Lines \ {call[w].line} : lines'[l] = lines[l]]_vars

\* A Move has written its source row and its destination row, and a short
\* pick of nothing has written its row.
C24_Witness ==
    /\ \E k \in DOMAIN applied :
           /\ Cardinality(applied[k].rows) = 2
           /\ call[applied[k].session].op = "move"
    /\ \E k \in DOMAIN applied :
           /\ call[applied[k].session].op = "shortpick"
           /\ log[Len(log)].transaction_type = "pick" /\ log[Len(log)].quantity = 0


\* The place, in the order of the ledger writes, of the last write of
\* session w (0: w has written nothing).
LastWrite(w) ==
    LET K == {k \in DOMAIN applied : applied[k].session = w}
    IN  IF K = {} THEN 0 ELSE CHOOSE k \in K : \A j \in K : j <= k

\* The write at place k has its entry in the log: a write is logged by the
\* call that made it, at once or in its next statement, unless its user is
\* unknown.
Logged(k) ==
    /\ UserExists(applied[k].user)
    /\ ~(/\ call[applied[k].session].op = "receive"
         /\ call[applied[k].session].pc = "log"
         /\ LastWrite(applied[k].session) = k)

\* The step by which session v appends the log entry of the write it has
\* made.
LogsItsWrite(v) ==
    /\ Steps(v) /\ Len(log') > Len(log)
    /\ inventory' = inventory
    /\ LastWrite(v) # 0

\* C25: the log entries of two successful mutations of the same ledger row
\* by different callers are in the order in which their ledger writes were
\* applied: when a caller appends the entry of its write, no write that was
\* applied to the same row after it by another caller is in the log already.
C25_LogFollowsWriteOrder ==
    [][\A v \in Workers : LogsItsWrite(v) =>
          ~\E k \in DOMAIN applied :
               /\ k > LastWrite(v)
               /\ applied[k].session # v
               /\ applied[k].rows \cap applied[LastWrite(v)].rows # {}
               /\ Logged(k)]_vars


\* C26: in every reachable state each wave's status is one of planning,
\* released, picking, completed, cancelled, createWave and releaseWave
\* writing no other status.
C26_WaveStatus ==
    \A i \in DOMAIN waves :
        waves[i].status \in {"planning", "released", "picking", "completed", "cancelled"}

\* C30: when no createWave is in flight, each wave's total_shipments is the
\* number of shipments whose wave_id is that wave.
C30_TotalShipments ==
    wcall.pc = "done" =>
        \A i \in DOMAIN waves :
            waves[i].total_shipments
                = Cardinality({s \in Shipments : shipments[s].wave_id = i})


\* What the log entry e adds to the stock at loc when it is replayed: a
\* receive and a move into loc add their quantity, an adjust adds its delta,
\* a pick and a move out of loc take their quantity away.
ReplayEntry(e, loc) ==
    (IF e.transaction_type \in {"receive", "move", "adjust"} /\ e.location_id_to = loc
     THEN e.quantity ELSE 0)
    - (IF e.transaction_type \in {"pick", "move"} /\ e.location_id_from = loc
       THEN e.quantity ELSE 0)

RECURSIVE ReplayUpTo(_, _)
\* The replay of the first n log entries, for loc.
ReplayUpTo(n, loc) ==
    IF n = 0 THEN 0 ELSE ReplayUpTo(n - 1, loc) + ReplayEntry(log[n], loc)

Quiescent == \A w \in Workers : call[w].pc = "done"

\* C27: in every quiescent state the ledger quantity at every location is the
\* initial stock plus the replay of the movement log, the initial stock being
\* one of the ledgers the calls can start from.
C27_LedgerIsLogReplay ==
    Quiescent =>
        \E init \in InitialLedgers : \A loc \in Locations :
            TotalAt(inventory, {loc}) = TotalAt(init, {loc}) + ReplayUpTo(Len(log), loc)


\* The step by which a completion of line l, full or short, succeeds.
Completes(l) ==
    \E w \in Workers :
        /\ Steps(w) /\ EndsWell(w)
        /\ call[w].op \in {"pick", "shortpick"} /\ call[w].line = l

\* C28: under any interleaving of Pull, Release, CompletePick and
\* CompletePickWithShortage at most one completion of a pick line succeeds:
\* a completion succeeds on an in_progress line only and leaves it picked or
\* short_picked, a picked or short_picked line stays as it is and is never
\* completed again, and the ledger is written and a pick log entry appended
\* only by a succeeding completion, once each.
C28_AtMostOneCompletion ==
    [][/\ \A l \in Lines :
            /\ Completes(l) =>
                   /\ lines[l].status = "in_progress"
                   /\ lines'[l].status \in {"picked", "short_picked"}
            /\ lines[l].status \in {"picked", "short_picked"} =>
                   /\ ~Completes(l)
                   /\ lines'[l] = lines[l]
       /\ Len(log') - Len(log) = Cardinality({l \in Lines : Completes(l)})
       /\ Len(applied') - Len(applied) = Cardinality({l \in Lines : Completes(l)})
       /\ Cardinality({l \in Lines : Completes(l)}) <= 1
       /\ \A k \in (Len(log) + 1) .. Len(log') : log'[k].transaction_type = "pick"]_vars

\* Line 1 has been completed, and a second completion of it, by the worker
\* that completed it, has been refused.
C28_Witness ==
    /\ lines[1].status = "picked"
    /\ Len(log) = 1
    /\ \E w \in Workers :
           /\ lines[1].picked_by = w
           /\ call[w].op = "shortpick" /\ call[w].line = 1
           /\ call[w].pc = "done" /\ call[w].err = ErrPickNotAssigned

\* C29: in every reachable state a putaway task or pick line that is
\* in_progress has exactly one assignee, a worker, and one that is pending
\* has none.
C29_Assignee ==
    /\ \A t \in Tasks :
           /\ tasks[t].status = "in_progress" => tasks[t].assigned_to \in Workers
           /\ tasks[t].status = "pending" => tasks[t].assigned_to = NULL
    /\ \A l \in Lines :
           /\ lines[l].status = "in_progress" => lines[l].picked_by \in Workers
           /\ lines[l].status = "pending" => lines[l].picked_by = NULL

\* A task pulled, released and pulled by the other worker, while a line is
\* in progress and the other line is pending again after a release.
C29_Witness ==
    /\ tasks[1].status = "in_progress" /\ tasks[1].assigned_to = "u2"
    /\ lines[1].status = "in_progress" /\ lines[1].picked_by = "u1"
    /\ lines[2].status = "pending"
    /\ call["u1"].op = "releasePick" /\ call["u1"].line = 2 /\ call["u1"].err = ""

====
